---- MODULE Spec2Model ----
(***************************************************************************)
(* Resource-lifecycle orchestration of aws-k8s-tester:                     *)
(*   eks/role.go                 createClusterRole / deleteClusterRole     *)
(*   eks/wordpress/wordpress.go  tester.Create / tester.Delete /           *)
(*                               waitService                               *)
(* One caller drives the four operations one at a time; the stop channel   *)
(* and the interrupt channel are fired by the environment at any moment.   *)
(* Time is counted in ticks of 5 seconds and passes in the timers and the   *)
(* sleeps of the code; an external call returns within its tick.           *)
(***************************************************************************)
EXTENDS Integers, Sequences, FiniteSets, TLC

VARIABLES
    Parameters,      \* cfg.Parameters: ClusterRoleCreate, ClusterRoleARN, ClusterRoleName
    Status,          \* cfg.Status: ClusterRoleCFNStackID, ClusterRoleARN
    AddOnWordpress,  \* cfg.AddOnWordpress: Created, URL, NLBName, NLBARN, CreateTook, DeleteTook
    persisted,       \* what the last Sync wrote: [Status, AddOnWordpress]
    stopc,           \* the stop channel has been closed
    sig,             \* an os.Signal is waiting on the interrupt channel
    pc,              \* position of the caller inside the running operation
    ch,              \* the channel returned by awscfn.Poll and the poller behind it
    st,              \* createClusterRole/deleteClusterRole: var st awscfn.StackStatus
    loc,             \* locals of the running wordpress call
    trace,           \* external mutating calls made by the running operation
    calls,           \* the last two operations that have returned, oldest first
    ncalls           \* how many operations have returned

vars == <<Parameters, Status, AddOnWordpress, persisted, stopc, sig, pc, ch, st,
          loc, trace, calls, ncalls>>

----------------------------------------------------------------------------
(* Bounds *)

MaxCalls == 3        \* operations the caller invokes in one behaviour
MaxPolls == 2        \* DescribeStacks queries that fit in the poll deadline
MaxOutputs == 2      \* outputs a stack description carries
WaitTicks == 3       \* waitDur (2 minutes) scaled to ticks
MaxIngress == 2      \* load-balancer ingress entries of the fetched service

(* Program constants, in ticks of 5 seconds *)

SettleTicks == 4     \* time.Sleep(20 * time.Second)
RetryTicks == 1      \* time.After(5 * time.Second), time.Sleep(5 * time.Second)

----------------------------------------------------------------------------
(* Values *)

Nil == "<nil>"

StackID == "stack-1"
RoleARN == "arn:aws:iam::role/r"
GivenARN == "arn:aws:iam::role/given"
RoleName == "eks-role"

ErrEmptyRoleName == "empty Parameters.ClusterRoleName"
ErrCreateStack == "CreateStack rejected"
ErrDeleteStack == "DeleteStack rejected"
ErrDescribe == "DescribeStacks failed"
ErrPollStopped == "poll cancelled: stop signal"
ErrPollSignal == "poll cancelled: os signal"
ErrPollDeadline == "poll deadline exceeded"
ErrStackFailed == "stack status FAILED"

\* the errors of a FAILED result that is neither a cancellation nor the deadline
PollFailures == {ErrDescribe, ErrStackFailed}

PollCancelErrors == {ErrPollStopped, ErrPollSignal}

StatusCreateComplete == "CREATE_COMPLETE"
StatusDeleteComplete == "DELETE_COMPLETE"
StatusCreateInProgress == "CREATE_IN_PROGRESS"
StatusDeleteInProgress == "DELETE_IN_PROGRESS"

KeyClusterRoleARN == "ClusterRoleARN"
KeyUnknown == "ClusterRoleID"

\* an output of a stack: OutputKey, OutputValue
Output(k, v) == [OutputKey |-> k, OutputValue |-> v]

OutputChoices == {Output(KeyClusterRoleARN, RoleARN), Output(KeyUnknown, "id-1")}

RECURSIVE SeqsUpTo(_, _)
SeqsUpTo(S, n) ==
    IF n = 0 THEN {<<>>}
    ELSE LET shorter == SeqsUpTo(S, n - 1)
         IN  shorter \cup {Append(s, x) : s \in {t \in shorter : Len(t) = n - 1}, x \in S}

\* the Outputs lists DescribeStacks may return for a completed stack
OutputLists == SeqsUpTo(OutputChoices, MaxOutputs)

\* zero value of awscfn.StackStatus
ZeroStackStatus == [Error |-> Nil, StackStatus |-> "", Outputs |-> <<>>]

NoCall == [op |-> "none", err |-> Nil, skipped |-> FALSE, trace |-> <<>>]

NoChannel == [open |-> FALSE, n |-> 0, desired |-> "", signals |-> FALSE, cancelled |-> FALSE]

\* no service fetched, no response received
NoService == [err |-> FALSE, ingress |-> <<>>]
NoResponse == [reqErr |-> FALSE, code |-> 0, readErr |-> FALSE, marker |-> FALSE]

NoLocals == [elapsed |-> 0, retryStart |-> 0, hostName |-> <<>>,
             so |-> NoService, resp |-> NoResponse]

----------------------------------------------------------------------------
(* Persistence *)

\* cfg.Sync(): write the record through to the sink
SyncOf(status, wp) == [Status |-> status, AddOnWordpress |-> wp]

\* cfg.RecordStatus(msg): the status text goes to the sink, with the record
RecordStatus(status, wp) == SyncOf(status, wp)

\* a call returns: append it to the history and go back to the caller
Returned(op, err, skipped, tr) ==
    /\ calls' = <<calls[2], [op |-> op, err |-> err, skipped |-> skipped, trace |-> tr]>>
    /\ ncalls' = ncalls + 1
    /\ trace' = <<>>
    /\ pc' = "idle"

Step(name, ok) == [step |-> name, ok |-> ok]

----------------------------------------------------------------------------
(* Initial state: any parameters, and the status record an earlier run of  *)
(* the tester left in the configuration file: empty, a submitted stack, or *)
(* a created role (a stack is only ever submitted for a named role with no *)
(* given ARN)                                                              *)

PriorStatus ==
    {[ClusterRoleCFNStackID |-> "", ClusterRoleARN |-> ""],
     [ClusterRoleCFNStackID |-> StackID, ClusterRoleARN |-> ""],
     [ClusterRoleCFNStackID |-> StackID, ClusterRoleARN |-> RoleARN]}


Init ==
    /\ Parameters \in [ClusterRoleCreate : BOOLEAN,
                       ClusterRoleARN : {"", GivenARN},
                       ClusterRoleName : {"", RoleName}]
    /\ Status \in PriorStatus
    /\ Status.ClusterRoleCFNStackID # "" =>
          Parameters.ClusterRoleARN = "" /\ Parameters.ClusterRoleName # ""
    /\ AddOnWordpress = [Created |-> FALSE, URL |-> <<>>, NLBName |-> <<>>, NLBARN |-> <<>>,
                         CreateTook |-> 0, DeleteTook |-> 0]
    /\ persisted = SyncOf(Status, AddOnWordpress)
    /\ stopc = FALSE
    /\ sig = FALSE
    /\ pc = "idle"
    /\ ch = NoChannel
    /\ st = ZeroStackStatus
    /\ loc = NoLocals
    /\ trace = <<>>
    /\ calls = <<NoCall, NoCall>>
    /\ ncalls = 0

CanCall == pc = "idle" /\ ncalls < MaxCalls

----------------------------------------------------------------------------
(* Environment: the stop channel is closed, a signal arrives *)

FireStop ==
    /\ ~stopc
    /\ stopc' = TRUE
    /\ UNCHANGED <<Parameters, Status, AddOnWordpress, persisted, sig, pc, ch, st, loc, trace, calls, ncalls>>

FireInterrupt ==
    /\ ~sig
    /\ sig' = TRUE
    /\ UNCHANGED <<Parameters, Status, AddOnWordpress, persisted, stopc, pc, ch, st, loc, trace, calls, ncalls>>

----------------------------------------------------------------------------
(* awscfn.Poll: the poller and its stream *)

\* awscfn.Poll(ctx, stopc, sigc, ..., desired, ...): a fresh open stream
Poll(signals, desired) ==
    [open |-> TRUE, n |-> 0, desired |-> desired, signals |-> signals, cancelled |-> FALSE]

\* createClusterRole passes ts.stopCreationCh and ts.interruptSig
CreatePollSignals == TRUE

\* a delete poll that listens to the caller's channels
DeletePollSignalsShared == TRUE

\* deleteClusterRole passes make(chan struct{}) and make(chan os.Signal)
DeletePollSignals == FALSE

Polling == pc \in {"create_poll", "delete_poll"} /\ ch.open

\* body of "for st = range ch": keep the snapshot, record an error
Receive(snapshot) ==
    /\ st' = snapshot
    /\ IF snapshot.Error # Nil
       THEN persisted' = RecordStatus(Status, AddOnWordpress)
       ELSE UNCHANGED persisted
    /\ UNCHANGED Status

\* cancel() in the body of the loop: the poll context is cancelled
Cancel(c) == [c EXCEPT !.cancelled = TRUE]

PollFrame == UNCHANGED <<Parameters, AddOnWordpress, stopc, pc, loc, trace, calls, ncalls>>

\* a cancellation signal wins the poller's wait: FAILED, stream closed
PollCancelled ==
    /\ Polling
    /\ ch.signals
    /\ \/ stopc /\ Receive([ZeroStackStatus EXCEPT !.Error = ErrPollStopped]) /\ sig' = sig
       \/ sig /\ Receive([ZeroStackStatus EXCEPT !.Error = ErrPollSignal]) /\ sig' = FALSE
    /\ ch' = Cancel([ch EXCEPT !.open = FALSE])
    /\ PollFrame

\* the deadline elapses: FAILED with a timeout error, stream closed
PollDeadline ==
    /\ Polling
    /\ ch.n >= MaxPolls
    /\ Receive([ZeroStackStatus EXCEPT !.Error = ErrPollDeadline])
    /\ ch' = Cancel([ch EXCEPT !.open = FALSE])
    /\ sig' = sig
    /\ PollFrame

\* the poller's timer fires before any signal and before the deadline
PollTick ==
    /\ Polling
    /\ ch.n < MaxPolls
    /\ ~(ch.signals /\ (stopc \/ sig))

\* the poller queries the control plane; the query fails or the stack has
\* failed: FAILED, stream closed
PollQueryFailed ==
    /\ PollTick
    /\ \E e \in PollFailures : Receive([ZeroStackStatus EXCEPT !.Error = e])
    /\ ch' = Cancel([ch EXCEPT !.open = FALSE, !.n = @ + 1])
    /\ sig' = sig
    /\ PollFrame

\* the stack is not yet in the desired status: an IN_PROGRESS snapshot
PollQueryInProgress ==
    /\ PollTick
    /\ Receive([ZeroStackStatus EXCEPT !.StackStatus =
                    IF ch.desired = StatusCreateComplete
                    THEN StatusCreateInProgress ELSE StatusDeleteInProgress])
    /\ ch' = [ch EXCEPT !.n = @ + 1]
    /\ sig' = sig
    /\ PollFrame

\* the desired status is reached: one COMPLETE snapshot with outputs, stream closed
PollQueryComplete ==
    /\ PollTick
    /\ \E outs \in (IF ch.desired = StatusCreateComplete THEN OutputLists ELSE {<<>>}) :
          Receive([ZeroStackStatus EXCEPT !.StackStatus = ch.desired, !.Outputs = outs])
    /\ ch' = [ch EXCEPT !.open = FALSE, !.n = @ + 1]
    /\ sig' = sig
    /\ PollFrame

----------------------------------------------------------------------------
(* eks/role.go: createClusterRole *)

RoleFrame == UNCHANGED <<Parameters, AddOnWordpress, stopc, sig, loc>>

\* a createClusterRole that does not look at Parameters.ClusterRoleCreate
ClusterRoleCreateIgnored == TRUE

\* if !ts.cfg.Parameters.ClusterRoleCreate { return nil }
ClusterRoleCreate == Parameters.ClusterRoleCreate

\* Parameters.ClusterRoleCreate false; skipping creation
CreateRoleDisabled ==
    /\ CanCall
    /\ ~ClusterRoleCreate
    /\ Returned("createClusterRole", Nil, TRUE, <<>>)
    /\ UNCHANGED <<Status, persisted, ch, st>>
    /\ RoleFrame

\* a guard that does not look at the recorded stack ID
RoleGivenIgnoringStack ==
    \/ Parameters.ClusterRoleARN # ""
    \/ Status.ClusterRoleARN # ""

\* the guard of createClusterRole: a role is given or recorded
RoleGiven ==
    \/ Parameters.ClusterRoleARN # ""
    \/ Status.ClusterRoleCFNStackID # ""
    \/ Status.ClusterRoleARN # ""

\* non-empty role given; no need to create a new one
CreateRoleGiven ==
    /\ CanCall
    /\ ClusterRoleCreate
    /\ RoleGiven
    /\ Returned("createClusterRole", Nil, TRUE, <<>>)
    /\ UNCHANGED <<Status, persisted, ch, st>>
    /\ RoleFrame

CreateRoleEmptyName ==
    /\ CanCall
    /\ ClusterRoleCreate
    /\ ~RoleGiven
    /\ Parameters.ClusterRoleName = ""
    /\ Returned("createClusterRole", ErrEmptyRoleName, FALSE, <<>>)
    /\ UNCHANGED <<Status, persisted, ch, st>>
    /\ RoleFrame

CreateRoleReady ==
    /\ CanCall
    /\ ClusterRoleCreate
    /\ ~RoleGiven
    /\ Parameters.ClusterRoleName # ""

\* a createClusterRole that keeps the stack ID before it looks at the error
CreateRoleSubmitRejectedKeepingID ==
    /\ CreateRoleReady
    /\ Status' = [Status EXCEPT !.ClusterRoleCFNStackID = StackID]
    /\ Returned("createClusterRole", ErrCreateStack, FALSE, <<Step("CreateStack", FALSE)>>)
    /\ UNCHANGED <<persisted, ch, st>>
    /\ RoleFrame

\* CreateStack is rejected: return err
CreateRoleSubmitRejected ==
    /\ CreateRoleReady
    /\ Returned("createClusterRole", ErrCreateStack, FALSE, <<Step("CreateStack", FALSE)>>)
    /\ UNCHANGED <<Status, persisted, ch, st>>
    /\ RoleFrame

\* a createClusterRole that polls without keeping the stack ID
CreateRoleSubmitNoHandle ==
    /\ CreateRoleReady
    /\ Status' = Status
    /\ ch' = Poll(CreatePollSignals, StatusCreateComplete)
    /\ st' = ZeroStackStatus
    /\ trace' = <<Step("CreateStack", TRUE)>>
    /\ pc' = "create_poll"
    /\ UNCHANGED <<persisted, calls, ncalls>>
    /\ RoleFrame

\* CreateStack is accepted: keep the stack ID and start polling
CreateRoleSubmit ==
    /\ CreateRoleReady
    /\ Status' = [Status EXCEPT !.ClusterRoleCFNStackID = StackID]
    /\ ch' = Poll(CreatePollSignals, StatusCreateComplete)
    /\ st' = ZeroStackStatus
    /\ trace' = <<Step("CreateStack", TRUE)>>
    /\ pc' = "create_poll"
    /\ UNCHANGED <<persisted, calls, ncalls>>
    /\ RoleFrame

\* a createClusterRole that reports a poll error in its own words
CreateRolePollErrorReworded ==
    /\ pc = "create_poll" /\ ~ch.open
    /\ st.Error # Nil
    /\ Returned("createClusterRole", "failed to create role", FALSE, trace)
    /\ ch' = NoChannel
    /\ st' = ZeroStackStatus
    /\ UNCHANGED <<Status, persisted>>
    /\ RoleFrame

\* the stream is closed with an error in the last snapshot: return st.Error
CreateRolePollError ==
    /\ pc = "create_poll" /\ ~ch.open
    /\ st.Error # Nil
    /\ Returned("createClusterRole", st.Error, FALSE, trace)
    /\ ch' = NoChannel
    /\ st' = ZeroStackStatus
    /\ UNCHANGED <<Status, persisted>>
    /\ RoleFrame

\* for _, o := range st.Stack.Outputs: the record and the error after the loop
RECURSIVE InstallOutputs(_, _)
InstallOutputs(status, outs) ==
    IF outs = <<>> THEN [status |-> status, err |-> Nil]
    ELSE IF Head(outs).OutputKey = KeyClusterRoleARN
         THEN InstallOutputs([status EXCEPT !.ClusterRoleARN = Head(outs).OutputValue], Tail(outs))
         ELSE [status |-> status, err |-> "unexpected OutputKey " \o Head(outs).OutputKey]

\* the stream is closed without an error: install the outputs, Sync
CreateRoleOutputs ==
    /\ pc = "create_poll" /\ ~ch.open
    /\ st.Error = Nil
    /\ LET r == InstallOutputs(Status, st.Outputs)
       IN  /\ Status' = r.status
           /\ persisted' = IF r.err = Nil THEN SyncOf(Status', AddOnWordpress) ELSE persisted
           /\ Returned("createClusterRole", r.err, FALSE, trace)
    /\ ch' = NoChannel
    /\ st' = ZeroStackStatus
    /\ RoleFrame

----------------------------------------------------------------------------
(* eks/role.go: deleteClusterRole *)

\* Parameters.ClusterRoleCreate false; skipping deletion
DeleteRoleDisabled ==
    /\ CanCall
    /\ ~Parameters.ClusterRoleCreate
    /\ Returned("deleteClusterRole", Nil, TRUE, <<>>)
    /\ UNCHANGED <<Status, persisted, ch, st>>
    /\ RoleFrame

\* empty role CFN stack ID; no need to delete role
DeleteRoleEmpty ==
    /\ CanCall
    /\ Parameters.ClusterRoleCreate
    /\ Status.ClusterRoleCFNStackID = ""
    /\ Returned("deleteClusterRole", Nil, TRUE, <<>>)
    /\ UNCHANGED <<Status, persisted, ch, st>>
    /\ RoleFrame

DeleteRoleReady ==
    /\ CanCall
    /\ Parameters.ClusterRoleCreate
    /\ Status.ClusterRoleCFNStackID # ""

\* DeleteStack is rejected: return err
DeleteRoleSubmitRejected ==
    /\ DeleteRoleReady
    /\ Returned("deleteClusterRole", ErrDeleteStack, FALSE, <<Step("DeleteStack", FALSE)>>)
    /\ UNCHANGED <<Status, persisted, ch, st>>
    /\ RoleFrame

\* DeleteStack is accepted: poll for delete-complete on fresh channels
DeleteRoleSubmit ==
    /\ DeleteRoleReady
    /\ ch' = Poll(DeletePollSignals, StatusDeleteComplete)
    /\ st' = ZeroStackStatus
    /\ trace' = <<Step("DeleteStack", TRUE)>>
    /\ pc' = "delete_poll"
    /\ UNCHANGED <<Status, persisted, calls, ncalls>>
    /\ RoleFrame

\* a deleteClusterRole that goes on to Sync whatever the last snapshot holds
DeleteRolePollErrorSwallowed ==
    /\ pc = "delete_poll" /\ ~ch.open
    /\ st.Error # Nil
    /\ Returned("deleteClusterRole", Nil, FALSE, trace)
    /\ ch' = NoChannel
    /\ st' = ZeroStackStatus
    /\ UNCHANGED <<Status, persisted>>
    /\ RoleFrame

\* the stream is closed with an error in the last snapshot: return st.Error
DeleteRolePollError ==
    /\ pc = "delete_poll" /\ ~ch.open
    /\ st.Error # Nil
    /\ Returned("deleteClusterRole", st.Error, FALSE, trace)
    /\ ch' = NoChannel
    /\ st' = ZeroStackStatus
    /\ UNCHANGED <<Status, persisted>>
    /\ RoleFrame

\* a deleteClusterRole that leaves the loop on the first snapshot without error
DeleteRoleDoneOnFirstResult ==
    /\ pc = "delete_poll" /\ (ch.n >= 1 \/ ~ch.open)
    /\ st.Error = Nil
    /\ persisted' = SyncOf(Status, AddOnWordpress)
    /\ Returned("deleteClusterRole", Nil, FALSE, trace)
    /\ ch' = NoChannel
    /\ st' = ZeroStackStatus
    /\ UNCHANGED Status
    /\ RoleFrame

\* the stream is closed without an error: log, Sync
DeleteRoleDone ==
    /\ pc = "delete_poll" /\ ~ch.open
    /\ st.Error = Nil
    /\ persisted' = SyncOf(Status, AddOnWordpress)
    /\ Returned("deleteClusterRole", Nil, FALSE, trace)
    /\ ch' = NoChannel
    /\ st' = ZeroStackStatus
    /\ UNCHANGED Status
    /\ RoleFrame

----------------------------------------------------------------------------
(* eks/wordpress/wordpress.go: strings are sequences of tokens;             *)
(* a host name is tokenised into its characters                             *)

\* abcd1234-zone.elb.amazonaws.com
HostNameExample ==
    <<"a", "b", "c", "d", "1", "2", "3", "4", "-", "z", "o", "n", "e", ".",
      "e", "l", "b", ".", "a", "m", "a", "z", "o", "n", "a", "w", "s", ".", "c", "o", "m">>

HostNames == {HostNameExample}

\* Status.LoadBalancer.Ingress of the fetched service: the Hostname of each entry
IngressLists == SeqsUpTo(HostNames \cup {<<>>}, MaxIngress)

\* what Services(ns).Get can return: an error, or a service with its ingress
Services == {[err |-> TRUE, ingress |-> <<>>]} \cup [err : {FALSE}, ingress : IngressLists]

Region == "us-west-2"
AWSAccountID == "123456789012"

ErrAborted == "WordPress service creation aborted"
ErrSignal == "received os signal"
ErrHostNotFound == "failed to find host name"
ErrNamespace == "CreateNamespace failed"
ErrRepoAdd == "helm repo add failed"
ErrInstall == "helm install failed"
ErrUninstall == "helm uninstall failed"
ErrDeleteNamespace == "namespace deletion timed out"

WaitAbortErrors == {ErrAborted, ErrSignal}

\* strings.Split(s, sep)[0]
RECURSIVE SplitFirst(_, _)
SplitFirst(s, sep) ==
    IF s = <<>> \/ Head(s) = sep THEN <<>>
    ELSE <<Head(s)>> \o SplitFirst(Tail(s), sep)

\* strings.Replace(s, old, new, -1)
ReplaceAll(s, old, new) == [i \in 1..Len(s) |-> IF s[i] = old THEN new ELSE s[i]]

\* strings.Join(errs, sep)
RECURSIVE Join(_, _)
Join(ss, sep) ==
    IF ss = <<>> THEN ""
    ELSE IF Len(ss) = 1 THEN Head(ss)
    ELSE Head(ss) \o sep \o Join(Tail(ss), sep)

DerivedURL(hostName) == <<"http://">> \o hostName

DerivedNLBName(hostName) == SplitFirst(hostName, "-")

\* an ARN built from the whole host name, its dots and dashes made slashes
DerivedNLBARNWholeHost(hostName) ==
    <<"arn:aws:elasticloadbalancing:", Region, ":", AWSAccountID, ":loadbalancer/net/">>
        \o ReplaceAll(ReplaceAll(hostName, ".", "/"), "-", "/")

DerivedNLBARN(hostName) ==
    <<"arn:aws:elasticloadbalancing:", Region, ":", AWSAccountID, ":loadbalancer/net/">>
        \o ReplaceAll(SplitFirst(hostName, "."), "-", "/")

\* the HTTP exchanges a probe can meet
Responses ==
    [reqErr : {TRUE}, code : {0}, readErr : {FALSE}, marker : {FALSE}]
    \cup [reqErr : {FALSE}, code : {400, 503}, readErr : {FALSE}, marker : {FALSE}]
    \cup [reqErr : {FALSE}, code : {200, 399}, readErr : BOOLEAN, marker : BOOLEAN]

\* httpReadInsecure: the error it returns
httpReadInsecure(r) ==
    IF r.reqErr THEN "http: request failed"
    ELSE IF r.code >= 400 THEN "url returned error status"
    ELSE IF r.readErr THEN "http: body read failed"
    ELSE Nil

\* time passes in the running wordpress call
Elapse(l, ticks) == [l EXCEPT !.elapsed = @ + ticks]

\* time.Since(start) when the deferred function runs, kept in units of
\* waitDur; the started unit counts
Since(l) == l.elapsed \div WaitTicks + 1

\* time.Now().Sub(retryStart) < waitDur
InWindow(l) == l.elapsed - l.retryStart < WaitTicks

WpFrame == UNCHANGED <<Parameters, Status, stopc, ch, st>>

----------------------------------------------------------------------------
(* tester.Create *)

\* skipping create AddOnWordpress
WpCreateSkip ==
    /\ CanCall
    /\ AddOnWordpress.Created
    /\ Returned("Create", Nil, TRUE, <<>>)
    /\ UNCHANGED <<AddOnWordpress, persisted, sig, loc>>
    /\ WpFrame

\* a Create that leaves Created alone until its steps are done
WpCreateBeginUnmarked ==
    /\ CanCall
    /\ ~AddOnWordpress.Created
    /\ AddOnWordpress' = AddOnWordpress
    /\ persisted' = SyncOf(Status, AddOnWordpress')
    /\ loc' = NoLocals
    /\ trace' = <<>>
    /\ pc' = "wp_namespace"
    /\ UNCHANGED <<sig, calls, ncalls>>
    /\ WpFrame

\* Created = true; Sync(); createStart := time.Now()
WpCreateBegin ==
    /\ CanCall
    /\ ~AddOnWordpress.Created
    /\ AddOnWordpress' = [AddOnWordpress EXCEPT !.Created = TRUE]
    /\ persisted' = SyncOf(Status, AddOnWordpress')
    /\ loc' = NoLocals
    /\ trace' = <<>>
    /\ pc' = "wp_namespace"
    /\ UNCHANGED <<sig, calls, ncalls>>
    /\ WpFrame

\* a Create whose failure paths return without the deferred function
CreateReturnNoDefer(err, wp, l, tr) ==
    /\ AddOnWordpress' = IF err = Nil THEN [wp EXCEPT !.CreateTook = Since(l)] ELSE wp
    /\ persisted' = IF err = Nil THEN SyncOf(Status, AddOnWordpress') ELSE persisted
    /\ loc' = NoLocals
    /\ Returned("Create", err, FALSE, tr)

\* the deferred function: record CreateTook, Sync; then the call returns err
CreateReturn(err, wp, l, tr) ==
    /\ AddOnWordpress' = [wp EXCEPT !.CreateTook = Since(l)]
    /\ persisted' = SyncOf(Status, AddOnWordpress')
    /\ loc' = NoLocals
    /\ Returned("Create", err, FALSE, tr)

\* a Create that logs the failure of a step and goes on with the next
CreateStepUnchecked(at, name, err, next) ==
    /\ pc = at
    /\ \E ok \in BOOLEAN :
          /\ loc' = loc
          /\ trace' = Append(trace, Step(name, ok))
          /\ pc' = next
          /\ UNCHANGED <<AddOnWordpress, persisted, calls, ncalls>>
    /\ sig' = sig
    /\ WpFrame

\* one external step of Create: on failure return err, on success go on
CreateStep(at, name, err, next) ==
    /\ pc = at
    /\ \E ok \in BOOLEAN :
          LET l == loc
              tr == Append(trace, Step(name, ok))
          IN  IF ok
              THEN /\ loc' = l
                   /\ trace' = tr
                   /\ pc' = next
                   /\ UNCHANGED <<AddOnWordpress, persisted, calls, ncalls>>
              ELSE CreateReturn(err, AddOnWordpress, l, tr)
    /\ sig' = sig
    /\ WpFrame

WpCreateNamespace == CreateStep("wp_namespace", "CreateNamespace", ErrNamespace, "wp_repo")

WpRepoAdd == CreateStep("wp_repo", "RepoAdd", ErrRepoAdd, "wp_install")

\* createHelmWordpress
WpHelmInstall == CreateStep("wp_install", "Install", ErrInstall, "ws_initial")

----------------------------------------------------------------------------
(* tester.waitService *)

\* a select on Stopc, Sig and a timer: which case is taken
Select == IF stopc THEN "stop" ELSE IF sig THEN "sig" ELSE "timer"

\* the select returned on Stopc or on Sig: waitService returns the error
WaitAborted(at) ==
    /\ pc = at
    /\ Select # "timer"
    /\ IF Select = "stop"
       THEN /\ CreateReturn(ErrAborted, AddOnWordpress, loc, trace)
            /\ sig' = sig
       ELSE /\ CreateReturn(ErrSignal, AddOnWordpress, loc, trace)
            /\ sig' = FALSE
    /\ WpFrame

\* case <-time.After(waitDur): the service is given 2 minutes
WsInitialWait ==
    /\ pc = "ws_initial"
    /\ Select = "timer"
    /\ loc' = [Elapse(loc, WaitTicks) EXCEPT !.retryStart = loc.elapsed + WaitTicks,
                                             !.hostName = <<>>]
    /\ pc' = "ws_disc"
    /\ UNCHANGED <<AddOnWordpress, persisted, sig, trace, calls, ncalls>>
    /\ WpFrame

WsInitialAborted == WaitAborted("ws_initial")

\* discovery loop: the window is open and the 5-second timer fires
WsDiscoveryTick ==
    /\ pc = "ws_disc"
    /\ InWindow(loc)
    /\ Select = "timer"
    /\ \E so \in Services : loc' = [Elapse(loc, RetryTicks) EXCEPT !.so = so]
    /\ pc' = "ws_get"
    /\ UNCHANGED <<AddOnWordpress, persisted, sig, trace, calls, ncalls>>
    /\ WpFrame

WsDiscoveryAborted == WaitAborted("ws_disc") /\ InWindow(loc)

\* a waitService that goes on to the health loop without a host name
WsDiscoveryTimeoutUnchecked ==
    /\ pc = "ws_disc"
    /\ ~InWindow(loc)
    /\ AddOnWordpress' = [AddOnWordpress EXCEPT !.URL = DerivedURL(loc.hostName),
                                                !.NLBName = DerivedNLBName(loc.hostName),
                                                !.NLBARN = DerivedNLBARN(loc.hostName)]
    /\ loc' = [loc EXCEPT !.retryStart = loc.elapsed]
    /\ pc' = "ws_health"
    /\ UNCHANGED <<persisted, sig, trace, calls, ncalls>>
    /\ WpFrame

\* the discovery window elapsed with hostName == "": failed to find host name
WsDiscoveryTimeout ==
    /\ pc = "ws_disc"
    /\ ~InWindow(loc)
    /\ CreateReturn(ErrHostNotFound, AddOnWordpress, loc, trace)
    /\ sig' = sig
    /\ WpFrame

\* Services(ns).Get failed: sleep 5 seconds, continue
WsGetFailed ==
    /\ pc = "ws_get"
    /\ loc.so.err
    /\ loc' = [Elapse(loc, RetryTicks) EXCEPT !.so = NoService]
    /\ pc' = "ws_disc"
    /\ UNCHANGED <<AddOnWordpress, persisted, sig, trace, calls, ncalls>>
    /\ WpFrame

\* for _, ing := range Ingress { hostName = ing.Hostname; break }
FirstHostName(hostName, ingress) == IF ingress = <<>> THEN hostName ELSE Head(ingress)

\* the service is fetched and no host name is found: next tick
WsGetNoHost ==
    /\ pc = "ws_get"
    /\ ~loc.so.err
    /\ FirstHostName(loc.hostName, loc.so.ingress) = <<>>
    /\ loc' = [loc EXCEPT !.so = NoService]
    /\ pc' = "ws_disc"
    /\ UNCHANGED <<AddOnWordpress, persisted, sig, trace, calls, ncalls>>
    /\ WpFrame

\* a host name is found: derive URL, NLBName, NLBARN; sleep 20 seconds
WsGetHost ==
    /\ pc = "ws_get"
    /\ ~loc.so.err
    /\ LET h == FirstHostName(loc.hostName, loc.so.ingress)
           l == Elapse(loc, SettleTicks)
       IN  /\ h # <<>>
           /\ AddOnWordpress' = [AddOnWordpress EXCEPT !.URL = DerivedURL(h),
                                                       !.NLBName = DerivedNLBName(h),
                                                       !.NLBARN = DerivedNLBARN(h)]
           /\ loc' = [l EXCEPT !.hostName = h, !.retryStart = l.elapsed, !.so = NoService]
    /\ trace' = Append(trace, Step("GetService", TRUE))
    /\ pc' = "ws_health"
    /\ UNCHANGED <<persisted, sig, calls, ncalls>>
    /\ WpFrame

\* health loop: the window is open and the 5-second timer fires
WsHealthTick ==
    /\ pc = "ws_health"
    /\ InWindow(loc)
    /\ Select = "timer"
    /\ \E r \in Responses : loc' = [Elapse(loc, RetryTicks) EXCEPT !.resp = r]
    /\ pc' = "ws_probe"
    /\ UNCHANGED <<AddOnWordpress, persisted, sig, trace, calls, ncalls>>
    /\ WpFrame

WsHealthAborted == WaitAborted("ws_health") /\ InWindow(loc)

\* the probe failed: sleep 5 seconds, continue
WsProbeFailed ==
    /\ pc = "ws_probe"
    /\ httpReadInsecure(loc.resp) # Nil
    /\ loc' = [Elapse(loc, RetryTicks) EXCEPT !.resp = NoResponse]
    /\ pc' = "ws_health"
    /\ UNCHANGED <<AddOnWordpress, persisted, sig, trace, calls, ncalls>>
    /\ WpFrame

\* if strings.Contains(httpOutput, marker) || true
AcceptBody(marker) == marker \/ TRUE

\* the probe read a response: on an accepted body break and return Sync(),
\* otherwise go on with the loop
WsProbeRead ==
    /\ pc = "ws_probe"
    /\ httpReadInsecure(loc.resp) = Nil
    /\ IF AcceptBody(loc.resp.marker)
       THEN CreateReturn(Nil, AddOnWordpress, loc, Append(trace, Step("Probe", TRUE)))
       ELSE /\ loc' = [loc EXCEPT !.resp = NoResponse]
            /\ pc' = "ws_health"
            /\ UNCHANGED <<AddOnWordpress, persisted, trace, calls, ncalls>>
    /\ sig' = sig
    /\ WpFrame

\* the health window elapsed: the loop ends, return Sync()
WsHealthTimeout ==
    /\ pc = "ws_health"
    /\ ~InWindow(loc)
    /\ CreateReturn(Nil, AddOnWordpress, loc, trace)
    /\ sig' = sig
    /\ WpFrame

----------------------------------------------------------------------------
(* tester.Delete *)

\* skipping delete AddOnWordpress
WpDeleteSkip ==
    /\ CanCall
    /\ ~AddOnWordpress.Created
    /\ Returned("Delete", Nil, TRUE, <<>>)
    /\ UNCHANGED <<AddOnWordpress, persisted, sig, loc>>
    /\ WpFrame

\* a Delete that returns as soon as the uninstall fails
DeleteStepsShortCircuit(uninstallOK, namespaceOK) ==
    IF uninstallOK
    THEN <<Step("Uninstall", TRUE), Step("DeleteNamespace", namespaceOK)>>
    ELSE <<Step("Uninstall", FALSE)>>

\* the sub-steps Delete performs: uninstall, then namespace deletion
DeleteSteps(uninstallOK, namespaceOK) ==
    <<Step("Uninstall", uninstallOK), Step("DeleteNamespace", namespaceOK)>>

\* the error detail of a failed sub-step, as appended to errs
StepDetail(s) ==
    IF s.step = "Uninstall" THEN ErrUninstall
    ELSE "failed to delete Wordpress namespace (" \o ErrDeleteNamespace \o ")"

\* var errs []string after the sub-steps
RECURSIVE DeleteErrs(_)
DeleteErrs(steps) ==
    IF steps = <<>> THEN <<>>
    ELSE (IF Head(steps).ok THEN <<>> ELSE <<StepDetail(Head(steps))>>) \o DeleteErrs(Tail(steps))

\* if len(errs) > 0 { return errors.New(strings.Join(errs, ", ")) }
DeleteError(errs) == IF Len(errs) > 0 THEN Join(errs, ", ") ELSE Nil

\* a Delete that clears Created before it looks at errs
DeleteCreatedAlwaysCleared(created, errs) == FALSE

\* Created after Delete: cleared only past the len(errs) > 0 return
DeleteCreated(created, errs) == IF Len(errs) > 0 THEN created ELSE FALSE

\* Delete, from the guard to the deferred DeleteTook and Sync
WpDelete ==
    /\ CanCall
    /\ AddOnWordpress.Created
    /\ \E uninstallOK \in BOOLEAN, namespaceOK \in BOOLEAN :
          LET steps == DeleteSteps(uninstallOK, namespaceOK)
              errs == DeleteErrs(steps)
          IN  /\ AddOnWordpress' = [AddOnWordpress EXCEPT
                                       !.Created = DeleteCreated(AddOnWordpress.Created, errs),
                                       !.DeleteTook = Since(NoLocals)]
              /\ persisted' = SyncOf(Status, AddOnWordpress')
              /\ Returned("Delete", DeleteError(errs), FALSE, steps)
    /\ UNCHANGED <<sig, loc>>
    /\ WpFrame

----------------------------------------------------------------------------

Next ==
    \/ FireStop
    \/ FireInterrupt
    \/ PollCancelled
    \/ PollDeadline
    \/ PollQueryFailed
    \/ PollQueryInProgress
    \/ PollQueryComplete
    \/ CreateRoleDisabled
    \/ CreateRoleGiven
    \/ CreateRoleEmptyName
    \/ CreateRoleSubmitRejected
    \/ CreateRoleSubmit
    \/ CreateRolePollError
    \/ CreateRoleOutputs
    \/ DeleteRoleDisabled
    \/ DeleteRoleEmpty
    \/ DeleteRoleSubmitRejected
    \/ DeleteRoleSubmit
    \/ DeleteRolePollError
    \/ DeleteRoleDone
    \/ WpCreateSkip
    \/ WpCreateBegin
    \/ WpCreateNamespace
    \/ WpRepoAdd
    \/ WpHelmInstall
    \/ WsInitialWait
    \/ WsInitialAborted
    \/ WsDiscoveryTick
    \/ WsDiscoveryAborted
    \/ WsDiscoveryTimeout
    \/ WsGetFailed
    \/ WsGetNoHost
    \/ WsGetHost
    \/ WsHealthTick
    \/ WsHealthAborted
    \/ WsProbeFailed
    \/ WsProbeRead
    \/ WsHealthTimeout
    \/ WpDeleteSkip
    \/ WpDelete

Spec == Init /\ [][Next]_vars

----------------------------------------------------------------------------
(* Properties *)

Prev == calls[1]
Last == calls[2]

Range(seq) == {seq[i] : i \in 1..Len(seq)}

\* how many times an external step was performed by a call
Count(tr, name) == Cardinality({i \in 1..Len(tr) : tr[i].step = name})

\* the operation that ran last has returned and no other has started
Idle == pc = "idle"

TwoRoleCreates == Prev.op = "createClusterRole" /\ Last.op = "createClusterRole"
TwoWpCreates == Prev.op = "Create" /\ Last.op = "Create"

\* C1, as stated: two creates in succession, the first of which reached its
\* first external step, submit (CreateStack, helm install) exactly once in
\* total, and the second is a no-op that returns success.
C1_ExactlyOnce ==
    /\ (TwoRoleCreates /\ Prev.trace # <<>>) =>
          /\ Count(Prev.trace, "CreateStack") + Count(Last.trace, "CreateStack") = 1
          /\ Last.skipped /\ Last.err = Nil
    /\ (TwoWpCreates /\ Prev.trace # <<>>) =>
          /\ Count(Prev.trace, "Install") + Count(Last.trace, "Install") = 1
          /\ Last.skipped /\ Last.err = Nil

\* C1, amended: once the first create had its CreateStack accepted (role), or
\* passed the guard (wordpress), the second create is a no-op that returns
\* success and performs no external step; the submit happens at most once in
\* total, and for the role stack exactly once.
C1_SecondCreateIsNoOp ==
    /\ (TwoRoleCreates /\ Step("CreateStack", TRUE) \in Range(Prev.trace)) =>
          /\ Last.skipped /\ Last.err = Nil /\ Last.trace = <<>>
          /\ Count(Prev.trace, "CreateStack") + Count(Last.trace, "CreateStack") = 1
    /\ (TwoWpCreates /\ ~Prev.skipped) =>
          /\ Last.skipped /\ Last.err = Nil /\ Last.trace = <<>>
          /\ Count(Prev.trace, "Install") + Count(Last.trace, "Install") <= 1

C1_Witness ==
    /\ Idle /\ TwoRoleCreates
    /\ Step("CreateStack", TRUE) \in Range(Prev.trace)
    /\ Prev.err = Nil
    /\ Last.skipped

\* a poll of createClusterRole delivers create-complete
ObservesCreateComplete ==
    /\ pc = "create_poll" /\ ch.open
    /\ st'.StackStatus = StatusCreateComplete

\* a running wordpress Create returns success
WpCreateReturnsSuccess ==
    /\ pc \in {"ws_initial", "ws_disc", "ws_get", "ws_health", "ws_probe"}
    /\ pc' = "idle"
    /\ calls'[2].err = Nil

\* C2: a stop or interrupt signal that has fired before the terminal status
\* is observed keeps createClusterRole from observing create-complete and the
\* wordpress Create from returning success.
C2_CancellationPrecedence ==
    [][(stopc \/ sig) => ~(ObservesCreateComplete \/ WpCreateReturnsSuccess)]_vars

\* C3: a wordpress Create that returns success has had a successful health
\* probe; a health window that elapses without one makes Create fail.
C3_ReadinessRequired ==
    (Last.op = "Create" /\ ~Last.skipped /\ Last.err = Nil) =>
        Step("Probe", TRUE) \in Range(Last.trace)

WpDeleteReturned == Idle /\ Last.op = "Delete" /\ ~Last.skipped

\* C4, as stated: after any non-skipped Delete returns, Created is false.
C4_ClearedAfterDelete == WpDeleteReturned => ~AddOnWordpress.Created

\* C4, amended: after a non-skipped Delete returns, Created is false exactly
\* when both sub-steps succeeded; when a sub-step failed Delete returns the
\* combined error and Created stays true.
C4_ClearedOnlyOnSuccess ==
    WpDeleteReturned =>
        /\ AddOnWordpress.Created <=> Last.err # Nil
        /\ Last.err # Nil <=> \E s \in Range(Last.trace) : ~s.ok

C4_Witness ==
    /\ WpDeleteReturned
    /\ Last.err # Nil
    /\ Len(Last.trace) = 2
    /\ AddOnWordpress.Created

RoleDeleteConfirmed(c) == c.op = "deleteClusterRole" /\ ~c.skipped /\ c.err = Nil

\* C5: after a deleteClusterRole confirmed by delete-complete the handle and
\* the role ARN are cleared, and a following deleteClusterRole is skipped
\* without a second DeleteStack.
C5_DeleteClearsRecord ==
    /\ (Idle /\ RoleDeleteConfirmed(Last)) =>
          Status.ClusterRoleCFNStackID = "" /\ Status.ClusterRoleARN = ""
    /\ (RoleDeleteConfirmed(Prev) /\ Last.op = "deleteClusterRole") =>
          Last.skipped /\ Last.trace = <<>>

NamespaceDetail == "failed to delete Wordpress namespace (" \o ErrDeleteNamespace \o ")"

\* C6: a non-skipped Delete attempts the uninstall and then the namespace
\* deletion whatever the uninstall returned; it returns an error iff a
\* sub-step failed, and the error is the failing steps' details joined.
C6_DeleteAggregation ==
    (Last.op = "Delete" /\ ~Last.skipped) =>
        /\ Len(Last.trace) = 2
        /\ Last.trace[1].step = "Uninstall"
        /\ Last.trace[2].step = "DeleteNamespace"
        /\ Last.err # Nil <=> (~Last.trace[1].ok \/ ~Last.trace[2].ok)
        /\ (~Last.trace[1].ok /\ Last.trace[2].ok) => Last.err = ErrUninstall
        /\ (Last.trace[1].ok /\ ~Last.trace[2].ok) => Last.err = NamespaceDetail
        /\ (~Last.trace[1].ok /\ ~Last.trace[2].ok) =>
              Last.err = ErrUninstall \o ", " \o NamespaceDetail

C6_Witness ==
    /\ Last.op = "Delete" /\ ~Last.skipped
    /\ Last.trace = <<Step("Uninstall", FALSE), Step("DeleteNamespace", TRUE)>>
    /\ Last.err = ErrUninstall

ErrUnexpectedKey == "unexpected OutputKey " \o KeyUnknown

\* C7: a createClusterRole that fails on an unrecognized output key installs
\* nothing into the record, and the create that follows it does not report
\* success; a create that returns success after polling has installed the ARN
\* it was given.
C7_OutputTotality ==
    /\ (Idle /\ Last.op = "createClusterRole" /\ Last.err = ErrUnexpectedKey) =>
          Status.ClusterRoleARN = ""
    /\ (TwoRoleCreates /\ Prev.err = ErrUnexpectedKey) => Last.err # Nil

\* C8: a deleteClusterRole that submitted its delete ends in delete-complete,
\* a poll failure or the deadline, never in a cancellation, whatever signals
\* fired while it polled.
C8_DeleteNotCancellable ==
    /\ pc = "delete_poll" => st.Error \in {Nil, ErrPollDeadline} \cup PollFailures
    /\ (Last.op = "deleteClusterRole" /\ ~Last.skipped
            /\ Step("DeleteStack", TRUE) \in Range(Last.trace)) =>
          Last.err \in {Nil, ErrPollDeadline} \cup PollFailures

C8_Witness ==
    /\ pc = "delete_poll" /\ ~ch.open
    /\ stopc /\ sig
    /\ st.Error = Nil /\ st.StackStatus = StatusDeleteComplete

\* C9: in createClusterRole, once a status snapshot has been read from the
\* poll stream the persisted record holds the handle of the submitted stack.
C9_WriteThrough ==
    (pc = "create_poll" /\ ch.n >= 1) =>
        persisted.Status.ClusterRoleCFNStackID = Status.ClusterRoleCFNStackID

WpReturns(op) == ncalls' = ncalls + 1 /\ calls'[2].op = op

\* C10: a wordpress Create or Delete that passed the guard returns with the
\* elapsed duration recorded and the record written through after its last
\* change, on success and on failure; a skipped call changes nothing.
C10_GuardWriteThrough ==
    [][/\ (WpReturns("Create") /\ ~calls'[2].skipped) =>
              /\ AddOnWordpress'.CreateTook = Since(loc)
              /\ persisted' = SyncOf(Status', AddOnWordpress')
       /\ (WpReturns("Delete") /\ ~calls'[2].skipped) =>
              /\ AddOnWordpress'.DeleteTook = Since(NoLocals)
              /\ persisted' = SyncOf(Status', AddOnWordpress')
       /\ ((WpReturns("Create") \/ WpReturns("Delete")) /\ calls'[2].skipped) =>
              AddOnWordpress' = AddOnWordpress /\ persisted' = persisted]_vars

C10_Witness ==
    /\ Idle /\ Last.op = "Create" /\ ~Last.skipped
    /\ Last.err \in WaitAbortErrors
    /\ AddOnWordpress.URL # <<>>
    /\ AddOnWordpress.CreateTook > 1
    /\ persisted = SyncOf(Status, AddOnWordpress)

\* a step in which the caller invokes createClusterRole
CallsCreateRole ==
    /\ pc = "idle"
    /\ \/ pc' = "create_poll"
       \/ ncalls' = ncalls + 1 /\ calls'[2].op = "createClusterRole"

\* C11: with ClusterRoleCreate false, createClusterRole returns success at
\* once, submits nothing, starts no poll and leaves the status record and
\* what is persisted unchanged, whatever the record holds.
C11_CreateDisabled ==
    [][(CallsCreateRole /\ ~Parameters.ClusterRoleCreate) =>
          /\ pc' = "idle"
          /\ calls'[2] = [op |-> "createClusterRole", err |-> Nil, skipped |-> TRUE,
                          trace |-> <<>>]
          /\ Status' = Status
          /\ persisted' = persisted
          /\ ch' = ch]_vars

C11_Witness ==
    /\ Idle /\ Last.op = "createClusterRole" /\ Last.skipped
    /\ ~Parameters.ClusterRoleCreate
    /\ Status.ClusterRoleCFNStackID # ""
    /\ Status.ClusterRoleARN = ""

\* C12: once a result of the poll stream carries an error (the first result
\* included), the stream is closed and the poll context cancelled, no further
\* query is made, and createClusterRole returns exactly that error without
\* touching the status record.
C12_FailFast ==
    [][(pc = "create_poll" /\ st.Error # Nil) =>
          /\ ~ch.open /\ ch.cancelled
          /\ (pc' # pc \/ ch' # ch \/ st' # st) =>
                /\ pc' = "idle"
                /\ calls'[2].op = "createClusterRole"
                /\ calls'[2].err = st.Error
                /\ Status' = Status]_vars

C12_Witness ==
    /\ pc = "create_poll"
    /\ ch.n = 1 /\ ~ch.open /\ ch.cancelled
    /\ st.Error = ErrStackFailed
    /\ Status.ClusterRoleARN = ""

\* the text of a sequence of tokens
RECURSIVE Text(_)
Text(tokens) == IF tokens = <<>> THEN "" ELSE Head(tokens) \o Text(Tail(tokens))

\* p is the part of h before its first sep (all of h if h has no sep)
BeforeFirst(h, sep, p) ==
    /\ Len(p) <= Len(h)
    /\ \A i \in 1..Len(p) : p[i] = h[i] /\ p[i] # sep
    /\ Len(p) < Len(h) => h[Len(p) + 1] = sep

\* the steps of a call that has returned or is running
HasStep(tr, name) == \E i \in 1..Len(tr) : tr[i].step = name

DerivesEndpoint == pc = "ws_get" /\ pc' = "ws_health"

ARNPrefix == "arn:aws:elasticloadbalancing:" \o Region \o ":" \o AWSAccountID \o ":loadbalancer/net/"

\* C15 as stated with the suffix of spec section 6: the ARN ends in the whole
\* host name with its dots and its dashes replaced by slashes.
C15_SuffixOfWholeHostName ==
    [][DerivesEndpoint =>
          LET h == loc'.hostName
              suffix == [i \in 1..Len(h) |-> IF h[i] \in {".", "-"} THEN "/" ELSE h[i]]
          IN  /\ Text(AddOnWordpress'.URL) = "http://" \o Text(h)
              /\ BeforeFirst(h, "-", AddOnWordpress'.NLBName)
              /\ Text(AddOnWordpress'.NLBARN) = ARNPrefix \o Text(suffix)]_vars

\* C15 (amended): for every discovered host name the URL is 'http://' and the
\* host name, the name is the part of the host name before its first '-', and
\* the ARN is the prefix for the region and the account followed by the part
\* of the host name before its first '.' with every '-' replaced by '/'; the
\* host name abcd1234-zone.elb.amazonaws.com gives name abcd1234 and an ARN
\* ending in loadbalancer/net/abcd1234/zone.
C15_EndpointDerivation ==
    [][DerivesEndpoint =>
          LET h == loc'.hostName
              wp == AddOnWordpress'
          IN  /\ h # <<>>
              /\ Text(wp.URL) = "http://" \o Text(h)
              /\ BeforeFirst(h, "-", wp.NLBName)
              /\ \E n \in 0..Len(h) :
                    LET label == SubSeq(h, 1, n)
                        suffix == [i \in 1..n |-> IF label[i] = "-" THEN "/" ELSE label[i]]
                    IN  /\ BeforeFirst(h, ".", label)
                        /\ Text(wp.NLBARN) = ARNPrefix \o Text(suffix)
              /\ h = HostNameExample =>
                    /\ Text(wp.NLBName) = "abcd1234"
                    /\ Text(wp.NLBARN) =
                          "arn:aws:elasticloadbalancing:us-west-2:123456789012:loadbalancer/net/abcd1234/zone"]_vars

C15_Witness ==
    /\ pc = "ws_health"
    /\ Text(loc.hostName) = "abcd1234-zone.elb.amazonaws.com"
    /\ Text(AddOnWordpress.URL) = "http://abcd1234-zone.elb.amazonaws.com"
    /\ Text(AddOnWordpress.NLBName) = "abcd1234"

\* for st = range ch: a call is reading its poll stream
AwaitsPoll == pc \in {"create_poll", "delete_poll"}

\* the call that is reading the poll stream
PollingOp == IF pc = "create_poll" THEN "createClusterRole" ELSE "deleteClusterRole"

\* C14: with a deadline of MaxPolls poll intervals, a stream on which the
\* desired status never shows and no cancellation is pending makes at most
\* MaxPolls queries and is then closed with the deadline error, nothing else;
\* createClusterRole and deleteClusterRole then return exactly that error.
C14_PollTimeout ==
    [][AwaitsPoll =>
          LET atDeadline == ch.open /\ ch.n = MaxPolls /\ ~(ch.signals /\ (stopc \/ sig))
              timedOut == ~ch.open /\ st.Error = ErrPollDeadline
          IN  /\ ch.n <= MaxPolls
              /\ (atDeadline /\ ch' # ch) =>
                    (~ch'.open /\ ch'.n = ch.n /\ st'.Error = ErrPollDeadline /\ pc' = pc)
              /\ (timedOut /\ pc' # pc) =>
                    (pc' = "idle" /\ calls'[2].op = PollingOp /\ calls'[2].err = st.Error)]_vars

C14_Witness ==
    /\ Idle /\ ~stopc /\ ~sig
    /\ Prev.op = "createClusterRole" /\ Prev.err = ErrPollDeadline
    /\ Last.op = "deleteClusterRole" /\ Last.err = ErrPollDeadline

\* the response of the probe is one httpReadInsecure returns without error
ProbeSucceeded(r) == ~r.reqErr /\ r.code < 400 /\ ~r.readErr

\* the response of the probe is a request error or a status of 400 or above
ProbeRejected(r) == r.reqErr \/ r.code >= 400

\* a step in which the health loop is left and Create returns success
EndsAsReady == pc \in {"ws_health", "ws_probe"} /\ pc' = "idle" /\ calls'[2].err = Nil

\* C16: in the health loop a response with a status below 400 whose body is
\* read without error ends the loop as ready, with or without the marker in
\* the body; a response with a status of 400 or above, or a request error,
\* never ends the loop as ready: the loop goes on to its next tick, and the
\* loop is left as ready only on a response that succeeded.
C16_ProbeAcceptance ==
    [][/\ (pc = "ws_probe" /\ pc' # pc /\ ProbeSucceeded(loc.resp)) =>
             (EndsAsReady /\ calls'[2].trace = Append(trace, Step("Probe", TRUE)))
       /\ (pc = "ws_probe" /\ pc' # pc /\ ProbeRejected(loc.resp)) =>
             (pc' = "ws_health" /\ ncalls' = ncalls /\ trace' = trace)
       /\ EndsAsReady => (pc = "ws_probe" /\ ProbeSucceeded(loc.resp))]_vars

\* the fetched service has an ingress entry with a host name
HasHostName(ingress) == \E i \in 1..Len(ingress) : ingress[i] # <<>>

\* C19: in every discovery tick in which the fetched service has an ingress
\* entry with a non-empty host name, at any position of the list, discovery
\* stops in that tick with a non-empty host name.
C19_DiscoveryCompleteness ==
    [][(pc = "ws_get" /\ ~loc.so.err /\ HasHostName(loc.so.ingress) /\ pc' # pc) =>
          (pc' = "ws_health" /\ loc'.hostName # <<>>)]_vars

\* a CreateStack or DeleteStack that was rejected is among the steps
RejectedSubmit(tr) ==
    \E i \in 1..Len(tr) : tr[i].step \in {"CreateStack", "DeleteStack"} /\ ~tr[i].ok

\* the error of a rejected submit of the call
SubmitError(op) == IF op = "createClusterRole" THEN ErrCreateStack ELSE ErrDeleteStack

\* C17: when CreateStack or DeleteStack is rejected the call returns that
\* error at once: the rejected submit is its only step, no poll is started,
\* and the handle, the status record and what is persisted stay as they were.
C17_SubmissionFailure ==
    [][/\ ~RejectedSubmit(trace)
       /\ (ncalls' = ncalls + 1 /\ RejectedSubmit(calls'[2].trace)) =>
             /\ pc = "idle" /\ pc' = "idle"
             /\ Len(calls'[2].trace) = 1
             /\ calls'[2].op \in {"createClusterRole", "deleteClusterRole"}
             /\ calls'[2].err = SubmitError(calls'[2].op)
             /\ Status' = Status
             /\ persisted' = persisted
             /\ ch' = ch /\ ~ch.open]_vars

C17_Witness ==
    /\ Idle /\ Last.op = "createClusterRole" /\ Last.err = ErrCreateStack
    /\ Last.trace = <<Step("CreateStack", FALSE)>>
    /\ Status.ClusterRoleCFNStackID = "" /\ persisted.Status.ClusterRoleCFNStackID = ""

\* the steps of Create in the order of the code
CreateOrder == <<"CreateNamespace", "RepoAdd", "Install", "GetService", "Probe">>

\* the steps are an initial part of CreateOrder and none but the last failed
InOrder(tr) ==
    /\ Len(tr) <= Len(CreateOrder)
    /\ \A i \in 1..Len(tr) : tr[i].step = CreateOrder[i] /\ (i < Len(tr) => tr[i].ok)

\* every step succeeded
AllOk(tr) == \A i \in 1..Len(tr) : tr[i].ok

\* how many steps have succeeded when Create stands at a position
StepsBefore ==
    [p \in {"wp_namespace", "wp_repo", "wp_install", "ws_initial", "ws_disc", "ws_get",
            "ws_health", "ws_probe"} |->
        CASE p = "wp_namespace" -> {0}
          [] p = "wp_repo" -> {1}
          [] p = "wp_install" -> {2}
          [] p \in {"ws_initial", "ws_disc", "ws_get"} -> {3}
          [] OTHER -> {4}]

\* C18: a wordpress Create runs namespace creation, repository registration,
\* install and readiness probing in this order, each at most once, each only
\* after the one before has succeeded; a step that fails is the last step of
\* the call, which returns an error.
C18_StepOrdering ==
    /\ pc \in DOMAIN StepsBefore =>
          InOrder(trace) /\ AllOk(trace) /\ Len(trace) \in StepsBefore[pc]
    /\ \A c \in {Prev, Last} :
          c.op = "Create" => /\ InOrder(c.trace)
                             /\ ~AllOk(c.trace) => c.err # Nil

C18_Witness ==
    /\ Idle /\ Last.op = "Create" /\ Last.err = Nil
    /\ Len(Last.trace) = 5 /\ Last.trace[5] = Step("Probe", TRUE)
    /\ Prev.op = "Delete" /\ Prev.err = Nil /\ ~Prev.skipped

\* C20: whenever Status.ClusterRoleARN is set, Status.ClusterRoleCFNStackID
\* is set too, and Status.ClusterRoleARN changes only in a createClusterRole
\* whose poll stream ended in a create-complete snapshot without error.
C20_RecordInvariant ==
    [][/\ Status.ClusterRoleARN # "" => Status.ClusterRoleCFNStackID # ""
       /\ Status'.ClusterRoleARN # "" => Status'.ClusterRoleCFNStackID # ""
       /\ Status'.ClusterRoleARN # Status.ClusterRoleARN =>
             /\ pc = "create_poll" /\ ~ch.open
             /\ st.Error = Nil /\ st.StackStatus = StatusCreateComplete
             /\ HasStep(trace, "CreateStack")]_vars

C20_Witness ==
    /\ Idle /\ ncalls = 1
    /\ Last.op = "createClusterRole" /\ ~Last.skipped /\ Last.err = Nil
    /\ Status.ClusterRoleARN = RoleARN /\ Status.ClusterRoleCFNStackID = StackID

\* C21: whenever a createClusterRole with ClusterRoleCreate true has returned
\* success, a role ARN is available: Parameters.ClusterRoleARN or
\* Status.ClusterRoleARN is non-empty.
C21_SuccessMeansRole ==
    (/\ Idle /\ Last.op = "createClusterRole" /\ Last.err = Nil
     /\ Parameters.ClusterRoleCreate) =>
        (Parameters.ClusterRoleARN # "" \/ Status.ClusterRoleARN # "")

\* Create is between its guard and its return
InCreate == pc \in DOMAIN StepsBefore

\* C22: while a wordpress Create runs its external steps, and after it has
\* returned with or without an error, Created is true in the record and in
\* what is persisted; a Delete that follows such a Create is not skipped and
\* attempts both the uninstall and the namespace deletion.
C22_NoOrphan ==
    /\ InCreate =>
          AddOnWordpress.Created /\ persisted.AddOnWordpress.Created
    /\ (Idle /\ Last.op = "Create" /\ ~Last.skipped) =>
          /\ Last.trace # <<>>
          /\ AddOnWordpress.Created /\ persisted.AddOnWordpress.Created
    /\ (Prev.op = "Create" /\ ~Prev.skipped /\ Last.op = "Delete") =>
          /\ ~Last.skipped
          /\ HasStep(Last.trace, "Uninstall") /\ HasStep(Last.trace, "DeleteNamespace")

C22_Witness ==
    /\ Idle
    /\ Prev.op = "Create" /\ Prev.err = ErrInstall
    /\ Last.op = "Delete" /\ ~Last.skipped /\ Len(Last.trace) = 2

\* a step in which a call that submitted and read its poll stream returns success
ReturnsSuccessAfterSubmit == AwaitsPoll /\ pc' = "idle" /\ calls'[2].err = Nil

====
